---- MODULE Spec2Model ----
(***************************************************************************)
(* FocusFlow backend (focusflow/backend/main.py): the in-memory task       *)
(* store, the depends_on / dependents edge lists, carry-over and the       *)
(* undo / redo stacks, as a state machine with one action per request      *)
(* handler.  A handler runs to completion in one step.  Handlers are       *)
(* modelled as the functions of main.py, applied to already validated      *)
(* request objects; routing and request validation are not modelled.       *)
(***************************************************************************)
EXTENDS Integers, Sequences, FiniteSets, TLC

\* ------------------------------------------------------------------------
\* Bounds of the model
\* ------------------------------------------------------------------------

\* Requests handled in one run; the logical clock stops there.
MaxOps == 4

\* Tasks created in one run (fresh uuid4 ids u1, u2, ...).
MaxCreate == 2

\* Records a history / redo stack holds when it is supplied as an input.
MaxLog == 2

\* Projects created in one run (fresh uuid4 ids p1, p2, ...).
MaxProjects == 1

\* ------------------------------------------------------------------------
\* Values
\* ------------------------------------------------------------------------

\* None for an Optional[str] field.
None == "None"

\* None for an Optional[date] / Optional[int] field.
NoInt == -1

\* date.today() at startup and the two days after it.
today == 0

tomorrow == today + 1

day_after == today + 2

\* date.max, the last date a date holds: the calendar is cut short after
\* day_after so that a request can name it.
date_max == day_after + 1

TimeBlock == {"anytime", "morning", "afternoon", "evening"}

TaskStatus == {"pending", "in-progress", "completed", "skipped", "carried-over"}

\* HTTP status codes of the responses.
HTTP_200 == 200

HTTP_201 == 201

HTTP_204 == 204

HTTP_400 == 400

HTTP_404 == 404

HTTP_500 == 500

\* ------------------------------------------------------------------------
\* Lists (Python list operations used by the handlers)
\* ------------------------------------------------------------------------

\* x in xs
InList(x, xs) == \E i \in 1..Len(xs) : xs[i] = x

\* The elements of xs as a set.
ToSet(xs) == {xs[i] : i \in 1..Len(xs)}

\* Number of occurrences of x in xs.
CountOf(x, xs) == Cardinality({i \in 1..Len(xs) : xs[i] = x})

\* Index of the first occurrence of x in xs (x is in xs).
FirstIndex(x, xs) == CHOOSE i \in 1..Len(xs) : xs[i] = x /\ \A j \in 1..(i - 1) : xs[j] # x

\* xs.remove(x) for x in xs: drops the FIRST occurrence only.
ListRemove(xs, x) == LET i == FirstIndex(x, xs) IN SubSeq(xs, 1, i - 1) \o SubSeq(xs, i + 1, Len(xs))

\* A guarded append that appends regardless of membership.
AppendAlways(xs, x) == Append(xs, x)

\* "if x not in xs: xs.append(x)"
AppendIfAbsent(xs, x) == IF InList(x, xs) THEN xs ELSE Append(xs, x)

\* "if x in xs: xs.remove(x)"
RemoveIfPresent(xs, x) == IF InList(x, xs) THEN ListRemove(xs, x) ELSE xs

\* ------------------------------------------------------------------------
\* Identifiers
\* ------------------------------------------------------------------------

\* Ids of the demo tasks, in the order startup_event inserts them.
DemoIds == <<"t1", "t2", "t3", "t4", "t5", "t6", "t7", "t8", "t9", "t10", "t11", "t12">>

\* str(uuid4()) of the k-th task created: fresh, never an id seen before.
FreshIds == <<"u1", "u2", "u3", "u4">>

\* Iteration order of tasks_db (a dict keeps insertion order; an id is
\* inserted once: demo tasks first, then created tasks in creation order).
IdOrder == DemoIds \o FreshIds

\* The keys of db in iteration order.
Keys(db) == SelectSeq(IdOrder, LAMBDA k : k \in DOMAIN db)

\* ------------------------------------------------------------------------
\* Records
\* ------------------------------------------------------------------------

\* Subtask(id, title, completed)
Subtask(id, title, completed) == [id |-> id, title |-> title, completed |-> completed]

\* Task(...) with the defaults of TaskBase and Task for the fields not given:
\* status pending, no actual_minutes, no dependents, no carried_over_from,
\* no notes, recurrence none, created_at = updated_at = now.
Task(id, title, description, project_id, date, time_block, estimated_minutes, priority, energy_level, icon, subtasks, depends_on, now) ==
    [id |-> id, title |-> title, description |-> description,
     project_id |-> project_id, date |-> date, time_block |-> time_block,
     estimated_minutes |-> estimated_minutes, priority |-> priority,
     energy_level |-> energy_level, icon |-> icon,
     recurrence_type |-> "none", recurrence_days |-> <<>>,
     status |-> "pending", actual_minutes |-> NoInt,
     subtasks |-> subtasks, depends_on |-> depends_on, dependents |-> <<>>,
     carried_over_from |-> NoInt, notes |-> None,
     created_at |-> now, updated_at |-> now]

\* A demo task of startup_event: Task(...) with status and dependents given.
DemoTask(id, title, description, project_id, date, time_block, estimated_minutes, status, priority, energy_level, icon, subtasks, depends_on, dependents) ==
    [Task(id, title, description, project_id, date, time_block, estimated_minutes, priority, energy_level, icon, subtasks, depends_on, 0)
        EXCEPT !.status = status, !.dependents = dependents]

\* demo_tasks of startup_event.
demo_tasks ==
    << DemoTask("t1", "Morning Standup", "Daily team sync", "work", today, "morning", 30, "completed", "medium", "medium", "briefcase",
                <<>>, <<>>, <<"t2">>),
       DemoTask("t2", "Q4 Planning Document", "Draft quarterly objectives", "work", today, "morning", 120, "in-progress", "high", "high", "briefcase",
                << Subtask("s1", "Review Q3 metrics", TRUE), Subtask("s2", "Draft objectives", FALSE), Subtask("s3", "Get stakeholder input", FALSE) >>,
                <<"t1">>, <<"t5">>),
       DemoTask("t3", "Gym - Upper Body", "Chest, shoulders, triceps", "health", today, "afternoon", 60, "pending", "medium", "high", "dumbbell",
                <<>>, <<>>, <<>>),
       DemoTask("t4", "Read AI Research Paper", None, "learning", today, "evening", 45, "pending", "low", "low", "book",
                <<>>, <<>>, <<>>),
       DemoTask("t5", "Present Q4 Plan", "Leadership review", "work", tomorrow, "morning", 60, "pending", "urgent", "high", "briefcase",
                <<>>, <<"t2">>, <<>>),
       DemoTask("t6", "Dentist Appointment", None, "personal", tomorrow, "afternoon", 60, "pending", "high", "low", "heart",
                <<>>, <<>>, <<>>),
       DemoTask("t7", "Online Course Module 3", "React Advanced Patterns", "learning", tomorrow, "evening", 90, "pending", "medium", "medium", "book",
                << Subtask("s4", "Watch lecture videos", FALSE), Subtask("s5", "Complete exercises", FALSE) >>,
                <<>>, <<"t9">>),
       DemoTask("t8", "Grocery Shopping", None, "home", day_after, "morning", 45, "pending", "medium", "medium", "home",
                <<>>, <<>>, <<>>),
       DemoTask("t9", "Course Quiz", "Module 3 assessment", "learning", day_after, "afternoon", 30, "pending", "high", "high", "book",
                <<>>, <<"t7">>, <<>>),
       DemoTask("t10", "Research vacation destinations", None, "personal", NoInt, "anytime", 30, "pending", "low", "low", "heart",
                <<>>, <<>>, <<>>),
       DemoTask("t11", "Update LinkedIn profile", None, "work", NoInt, "anytime", 20, "pending", "low", "low", "briefcase",
                <<>>, <<>>, <<>>),
       DemoTask("t12", "Call mom", None, "personal", NoInt, "anytime", 30, "pending", "medium", "low", "heart",
                <<>>, <<>>, <<>>) >>

\* tasks_db after "for task in demo_tasks: tasks_db[task.id] = task".
SeededStore == [id \in ToSet(DemoIds) |-> demo_tasks[FirstIndex(id, DemoIds)]]

\* tasks_db as the module creates it: {}.
EmptyStore == [id \in {} |-> 0]

\* Ids of DEFAULT_PROJECTS, loaded into projects_db at import.
DEFAULT_PROJECTS == {"work", "health", "learning", "personal", "home"}

\* ------------------------------------------------------------------------
\* State
\* ------------------------------------------------------------------------

VARIABLES
    tasks_db,        \* id -> Task: the task store
    projects_db,     \* ids of the stored projects
    action_history,  \* the undo stack (a list of action records)
    redo_stack,      \* the redo stack
    next_id,         \* tasks created so far (the next uuid4 is FreshIds[next_id + 1])
    clock,           \* datetime.utcnow(), one tick per request handled
    request,         \* the request handled last: [op, ...arguments]
    response,        \* its response: [status, body]
    pre,             \* history variable: tasks_db and both stacks before that request
    again,           \* history variable: that request repeats the one before it
    event_loop       \* the handler calls in flight: [coroutines, running]

vars == <<tasks_db, projects_db, action_history, redo_stack, next_id, clock, request, response, pre,
          again, event_loop>>

\* The event loop with no handler call in flight.
IdleLoop == [coroutines |-> <<>>, running |-> 0]

\* What pre records of a state (status: of the response before).
Snapshot ==
    [tasks_db |-> tasks_db, projects_db |-> projects_db, action_history |-> action_history,
     redo_stack |-> redo_stack, status |-> response.status]

\* No request handled yet.
NoRequest == [op |-> "none"]

NoResponse == [status |-> 0, body |-> None]

\* The state after import (empty task store), or after import and the
\* startup event (demo tasks loaded).  Nothing in main.py fills the stacks.
Init ==
    /\ tasks_db \in {EmptyStore, SeededStore}
    /\ projects_db = DEFAULT_PROJECTS
    /\ action_history = <<>>
    /\ redo_stack = <<>>
    /\ next_id = 0
    /\ clock = 0
    /\ request = NoRequest
    /\ response = NoResponse
    /\ pre = Snapshot
    /\ again = FALSE
    /\ event_loop = IdleLoop

\* A response.
Response(code, body) == [status |-> code, body |-> body]

\* raise HTTPException(status_code=code, detail=detail): no state change made
\* by the raise itself.
HTTPException(code, detail) == Response(code, [detail |-> detail])

\* Every handler: one request is taken while the clock runs, the time
\* advances, and the state before the request is recorded.  The handler is
\* called and returns in one step: no call is left in flight.
Handle(req) ==
    /\ clock < MaxOps
    /\ UNCHANGED event_loop
    /\ clock' = clock + 1
    /\ request' = req
    /\ pre' = Snapshot
    /\ again' = (req = request)

\* ------------------------------------------------------------------------
\* Dependency edges: create, delete, link, unlink
\* ------------------------------------------------------------------------

\* update_dependents(task_id): for every stored task whose depends_on holds
\* task_id, task_id is appended to THAT task's dependents unless present.
update_dependents(db, task_id) ==
    IF task_id \notin DOMAIN db THEN db
    ELSE [k \in DOMAIN db |->
            IF InList(task_id, db[k].depends_on) /\ ~InList(task_id, db[k].dependents)
            THEN [db[k] EXCEPT !.dependents = Append(@, task_id)]
            ELSE db[k]]

\* db with db[id] = task (tasks_db[id] = task).
Put(db, id, task) == [k \in (DOMAIN db) \cup {id} |-> IF k = id THEN task ELSE db[k]]

\* db without id (del tasks_db[id]).
Del(db, id) == [k \in (DOMAIN db) \ {id} |-> db[k]]

\* The Task create_task builds from a TaskCreate: subtasks get ids of their
\* own, depends_on is taken as given (no check, no deduplication).
NewTask(id, task_data, now) ==
    Task(id, task_data.title, task_data.description, task_data.project_id,
         task_data.date, task_data.time_block, task_data.estimated_minutes,
         task_data.priority, task_data.energy_level, task_data.icon,
         [i \in 1..Len(task_data.subtasks) |->
             Subtask(id \o "-s" \o ToString(i), task_data.subtasks[i].title, task_data.subtasks[i].completed)],
         task_data.depends_on, now)

\* create_task: store and response.
create_task_result(db, id, task_data, now) ==
    LET task == NewTask(id, task_data, now)
        db1 == update_dependents(Put(db, id, task), id)
    IN  [db |-> db1, resp |-> Response(HTTP_201, db1[id])]

\* POST /api/tasks
create_task(task_data) ==
    /\ next_id < MaxCreate
    /\ Handle([op |-> "create_task", task_data |-> task_data, task_id |-> FreshIds[next_id + 1]])
    /\ LET r == create_task_result(tasks_db, FreshIds[next_id + 1], task_data, clock + 1)
       IN  /\ tasks_db' = r.db
           /\ response' = r.resp
    /\ next_id' = next_id + 1
    /\ UNCHANGED <<projects_db, action_history, redo_stack>>

\* delete_task: 404 if absent; else one remove of task_id from each list
\* that holds it, in every stored task, then the record is deleted.
delete_task_result(db, task_id) ==
    IF task_id \notin DOMAIN db
    THEN [db |-> db, resp |-> HTTPException(HTTP_404, "Task not found")]
    ELSE LET cleaned == [k \in DOMAIN db |->
                            [db[k] EXCEPT !.depends_on = RemoveIfPresent(@, task_id),
                                          !.dependents = RemoveIfPresent(@, task_id)]]
         IN  [db |-> Del(cleaned, task_id), resp |-> Response(HTTP_204, None)]

\* DELETE /api/tasks/{task_id}
delete_task(task_id) ==
    /\ Handle([op |-> "delete_task", task_id |-> task_id])
    /\ LET r == delete_task_result(tasks_db, task_id)
       IN  /\ tasks_db' = r.db
           /\ response' = r.resp
    /\ UNCHANGED <<projects_db, action_history, redo_stack, next_id>>

\* A link that writes the endpoint it finds before it checks the other one.
link_tasks_result_write_first(db, parent_task_id, dependent_task_id) ==
    LET db1 == IF dependent_task_id \in DOMAIN db
               THEN [db EXCEPT ![dependent_task_id].depends_on = AppendIfAbsent(@, parent_task_id)]
               ELSE db
        db2 == IF parent_task_id \in DOMAIN db1
               THEN [db1 EXCEPT ![parent_task_id].dependents = AppendIfAbsent(@, dependent_task_id)]
               ELSE db1
    IN  IF parent_task_id \notin DOMAIN db \/ dependent_task_id \notin DOMAIN db
        THEN [db |-> db2, resp |-> HTTPException(HTTP_404, "Task not found")]
        ELSE [db |-> db2, resp |-> Response(HTTP_200, [status |-> "linked", parent |-> parent_task_id, dependent |-> dependent_task_id])]

\* A link that refuses a task as its own parent and a parent that already
\* depends on the dependent.
link_tasks_result_rejects_cycle(db, parent_task_id, dependent_task_id) ==
    IF parent_task_id \notin DOMAIN db \/ dependent_task_id \notin DOMAIN db
    THEN [db |-> db, resp |-> HTTPException(HTTP_404, "Task not found")]
    ELSE IF parent_task_id = dependent_task_id \/ InList(dependent_task_id, db[parent_task_id].depends_on)
         THEN [db |-> db, resp |-> HTTPException(HTTP_400, "Circular dependency")]
         ELSE LET db1 == [db EXCEPT ![dependent_task_id].depends_on = AppendIfAbsent(@, parent_task_id)]
                  db2 == [db1 EXCEPT ![parent_task_id].dependents = AppendIfAbsent(@, dependent_task_id)]
              IN  [db |-> db2, resp |-> Response(HTTP_200, [status |-> "linked", parent |-> parent_task_id, dependent |-> dependent_task_id])]

\* link_tasks: both lookups, then the 404 check, then the two guarded appends
\* (parent and dependent may be the same task).
link_tasks_result(db, parent_task_id, dependent_task_id) ==
    IF parent_task_id \notin DOMAIN db \/ dependent_task_id \notin DOMAIN db
    THEN [db |-> db, resp |-> HTTPException(HTTP_404, "Task not found")]
    ELSE LET db1 == [db EXCEPT ![dependent_task_id].depends_on = AppendIfAbsent(@, parent_task_id)]
             db2 == [db1 EXCEPT ![parent_task_id].dependents = AppendIfAbsent(@, dependent_task_id)]
         IN  [db |-> db2, resp |-> Response(HTTP_200, [status |-> "linked", parent |-> parent_task_id, dependent |-> dependent_task_id])]

\* POST /api/tasks/link
link_tasks(parent_task_id, dependent_task_id) ==
    /\ Handle([op |-> "link_tasks", parent_task_id |-> parent_task_id, dependent_task_id |-> dependent_task_id])
    /\ LET r == link_tasks_result(tasks_db, parent_task_id, dependent_task_id)
       IN  /\ tasks_db' = r.db
           /\ response' = r.resp
    /\ UNCHANGED <<projects_db, action_history, redo_stack, next_id>>

\* unlink_tasks: both lookups, the 404 check, then the two guarded removes.
unlink_tasks_result(db, parent_task_id, dependent_task_id) ==
    IF parent_task_id \notin DOMAIN db \/ dependent_task_id \notin DOMAIN db
    THEN [db |-> db, resp |-> HTTPException(HTTP_404, "Task not found")]
    ELSE LET db1 == [db EXCEPT ![dependent_task_id].depends_on = RemoveIfPresent(@, parent_task_id)]
             db2 == [db1 EXCEPT ![parent_task_id].dependents = RemoveIfPresent(@, dependent_task_id)]
         IN  [db |-> db2, resp |-> Response(HTTP_200, [status |-> "unlinked"])]

\* DELETE /api/tasks/link
unlink_tasks(parent_task_id, dependent_task_id) ==
    /\ Handle([op |-> "unlink_tasks", parent_task_id |-> parent_task_id, dependent_task_id |-> dependent_task_id])
    /\ LET r == unlink_tasks_result(tasks_db, parent_task_id, dependent_task_id)
       IN  /\ tasks_db' = r.db
           /\ response' = r.resp
    /\ UNCHANGED <<projects_db, action_history, redo_stack, next_id>>

\* ------------------------------------------------------------------------
\* Task updates and status shortcuts
\* ------------------------------------------------------------------------

\* The task rebuilt from the request instead of patched: a status the
\* request omits falls back to the default of Task.
SetFields_reset_omitted(task, update_data) ==
    [f \in DOMAIN task |-> IF f \in DOMAIN update_data THEN update_data[f]
                           ELSE IF f = "status" THEN "pending" ELSE task[f]]

\* setattr(task, field, value) for every item of update_data, the fields the
\* request sets (model_dump(exclude_unset=True)).
SetFields(task, update_data) ==
    [f \in DOMAIN task |-> IF f \in DOMAIN update_data THEN update_data[f] ELSE task[f]]

\* update_task: 404 if absent; else the request's fields are set, updated_at
\* is refreshed and update_dependents runs.  Nothing is pushed on
\* action_history.
update_task_result(db, task_id, update_data, now) ==
    IF task_id \notin DOMAIN db
    THEN [db |-> db, resp |-> HTTPException(HTTP_404, "Task not found")]
    ELSE LET task == [SetFields(db[task_id], update_data) EXCEPT !.updated_at = now]
             db1 == update_dependents(Put(db, task_id, task), task_id)
         IN  [db |-> db1, resp |-> Response(HTTP_200, db1[task_id])]

\* PUT /api/tasks/{task_id}
update_task(task_id, update_data) ==
    /\ Handle([op |-> "update_task", task_id |-> task_id, update_data |-> update_data])
    /\ LET r == update_task_result(tasks_db, task_id, update_data, clock + 1)
       IN  /\ tasks_db' = r.db
           /\ response' = r.resp
    /\ UNCHANGED <<projects_db, action_history, redo_stack, next_id>>

\* complete_task / start_task: 404 if absent; else status and updated_at.
set_status_result(db, task_id, new_status, now) ==
    IF task_id \notin DOMAIN db
    THEN [db |-> db, resp |-> HTTPException(HTTP_404, "Task not found")]
    ELSE LET db1 == [db EXCEPT ![task_id].status = new_status, ![task_id].updated_at = now]
         IN  [db |-> db1, resp |-> Response(HTTP_200, db1[task_id])]

\* POST /api/tasks/{task_id}/complete
complete_task(task_id) ==
    /\ Handle([op |-> "complete_task", task_id |-> task_id])
    /\ LET r == set_status_result(tasks_db, task_id, "completed", clock + 1)
       IN  /\ tasks_db' = r.db
           /\ response' = r.resp
    /\ UNCHANGED <<projects_db, action_history, redo_stack, next_id>>

\* POST /api/tasks/{task_id}/start
start_task(task_id) ==
    /\ Handle([op |-> "start_task", task_id |-> task_id])
    /\ LET r == set_status_result(tasks_db, task_id, "in-progress", clock + 1)
       IN  /\ tasks_db' = r.db
           /\ response' = r.resp
    /\ UNCHANGED <<projects_db, action_history, redo_stack, next_id>>

\* move_task: 404 if absent; a target that is None leaves its field alone.
move_task_result(db, task_id, target_date, target_time_block, now) ==
    IF task_id \notin DOMAIN db
    THEN [db |-> db, resp |-> HTTPException(HTTP_404, "Task not found")]
    ELSE LET db1 == [db EXCEPT
                        ![task_id].date = IF target_date # NoInt THEN target_date ELSE @,
                        ![task_id].time_block = IF target_time_block # None THEN target_time_block ELSE @,
                        ![task_id].updated_at = now]
         IN  [db |-> db1, resp |-> Response(HTTP_200, db1[task_id])]

\* POST /api/tasks/move
move_task(task_id, target_date, target_time_block) ==
    /\ Handle([op |-> "move_task", task_id |-> task_id, target_date |-> target_date, target_time_block |-> target_time_block])
    /\ LET r == move_task_result(tasks_db, task_id, target_date, target_time_block, clock + 1)
       IN  /\ tasks_db' = r.db
           /\ response' = r.resp
    /\ UNCHANGED <<projects_db, action_history, redo_stack, next_id>>

\* ------------------------------------------------------------------------
\* Carry-over
\* ------------------------------------------------------------------------

\* A carry-over test that forgets the skipped status.
carries_unless_completed(task, from_date) ==
    task.date = from_date /\ task.status # "completed"

\* The test of the loop: dated from_date, neither completed nor skipped.
carries(task, from_date) ==
    task.date = from_date /\ task.status \notin {"completed", "skipped"}

\* A carry-over that forgets to record where the task came from.
carried_task_no_provenance(task, to_date) ==
    [task EXCEPT !.date = to_date, !.status = "carried-over"]

\* The three assignments of the loop body.
carried_task(task, to_date) ==
    [task EXCEPT !.carried_over_from = task.date, !.date = to_date, !.status = "carried-over"]

\* carry_over_tasks: one pass over tasks_db.values(); the ids of the tasks
\* carried are returned in iteration order, with their number.
carry_over_tasks_result(db, from_date, to_date) ==
    LET carried == SelectSeq(Keys(db), LAMBDA k : carries(db[k], from_date))
        db1 == [k \in DOMAIN db |-> IF carries(db[k], from_date) THEN carried_task(db[k], to_date) ELSE db[k]]
    IN  [db |-> db1, resp |-> Response(HTTP_200, [carried_over |-> Len(carried), task_ids |-> carried])]

\* POST /api/tasks/carry-over
carry_over_tasks(from_date, to_date) ==
    /\ Handle([op |-> "carry_over_tasks", from_date |-> from_date, to_date |-> to_date])
    /\ LET r == carry_over_tasks_result(tasks_db, from_date, to_date)
       IN  /\ tasks_db' = r.db
           /\ response' = r.resp
    /\ UNCHANGED <<projects_db, action_history, redo_stack, next_id>>

\* ------------------------------------------------------------------------
\* Undo / redo
\* ------------------------------------------------------------------------

\* An action record as undo_action and redo_action read it.
ActionRecord(type, task_id, previous_state, new_state) ==
    [type |-> type, task_id |-> task_id, previous_state |-> previous_state, new_state |-> new_state]

\* A restore step that brings a task that left the store back.
Restore_recreates_task(db, action, state) ==
    IF action.type = "update_task"
    THEN IF action.task_id \in DOMAIN db
         THEN [db EXCEPT ![action.task_id] = SetFields(@, state)]
         ELSE Put(db, action.task_id,
                  SetFields(Task(action.task_id, "", None, None, NoInt, "anytime", 30, "medium",
                                 "medium", None, <<>>, <<>>, 0), state))
    ELSE db

\* The store after the restore step: for an "update_task" record whose task
\* is stored, the fields of `state` are set on it; otherwise nothing.
Restore(db, action, state) ==
    IF action.type = "update_task" /\ action.task_id \in DOMAIN db
    THEN [db EXCEPT ![action.task_id] = SetFields(@, state)]
    ELSE db

\* An undo that tests the wrong stack for emptiness.
undo_action_result_wrong_stack(db, history, redo) ==
    IF redo = <<>> \/ history = <<>>
    THEN [db |-> db, history |-> history, redo |-> redo, resp |-> HTTPException(HTTP_400, "Nothing to undo")]
    ELSE [db |-> db, history |-> SubSeq(history, 1, Len(history) - 1), redo |-> Append(redo, history[Len(history)]),
          resp |-> Response(HTTP_200, [undone |-> history[Len(history)].type, task_id |-> history[Len(history)].task_id])]

\* An undo that takes the oldest record of the history, not the latest.
undo_action_result_oldest_first(db, history, redo) ==
    IF history = <<>>
    THEN [db |-> db, history |-> history, redo |-> redo, resp |-> HTTPException(HTTP_400, "Nothing to undo")]
    ELSE LET last_action == history[1]
         IN  [db |-> Restore(db, last_action, last_action.previous_state),
              history |-> Tail(history),
              redo |-> Append(redo, last_action),
              resp |-> Response(HTTP_200, [undone |-> last_action.type, task_id |-> last_action.task_id])]

\* undo_action: 400 on an empty history; else the last record moves to the
\* redo stack and its previous_state is restored.
undo_action_result(db, history, redo) ==
    IF history = <<>>
    THEN [db |-> db, history |-> history, redo |-> redo, resp |-> HTTPException(HTTP_400, "Nothing to undo")]
    ELSE LET last_action == history[Len(history)]
         IN  [db |-> Restore(db, last_action, last_action.previous_state),
              history |-> SubSeq(history, 1, Len(history) - 1),
              redo |-> Append(redo, last_action),
              resp |-> Response(HTTP_200, [undone |-> last_action.type, task_id |-> last_action.task_id])]

\* POST /api/undo
undo_action ==
    /\ Handle([op |-> "undo_action"])
    /\ LET r == undo_action_result(tasks_db, action_history, redo_stack)
       IN  /\ tasks_db' = r.db
           /\ action_history' = r.history
           /\ redo_stack' = r.redo
           /\ response' = r.resp
    /\ UNCHANGED <<projects_db, next_id>>

\* redo_action: 400 on an empty redo stack; else the last record moves back
\* to the history and its new_state is applied.
redo_action_result(db, history, redo) ==
    IF redo = <<>>
    THEN [db |-> db, history |-> history, redo |-> redo, resp |-> HTTPException(HTTP_400, "Nothing to redo")]
    ELSE LET action == redo[Len(redo)]
         IN  [db |-> Restore(db, action, action.new_state),
              history |-> Append(history, action),
              redo |-> SubSeq(redo, 1, Len(redo) - 1),
              resp |-> Response(HTTP_200, [redone |-> action.type, task_id |-> action.task_id])]

\* POST /api/redo
redo_action ==
    /\ Handle([op |-> "redo_action"])
    /\ LET r == redo_action_result(tasks_db, action_history, redo_stack)
       IN  /\ tasks_db' = r.db
           /\ action_history' = r.history
           /\ redo_stack' = r.redo
           /\ response' = r.resp
    /\ UNCHANGED <<projects_db, next_id>>

\* ------------------------------------------------------------------------
\* Queries: tasks, schedule views, project statistics
\* ------------------------------------------------------------------------

\* An exception no handler catches: the framework answers 500.
InternalServerError(exception) == Response(HTTP_500, [detail |-> exception])

\* list(tasks_db.values()): the stored tasks in iteration order.
Values(db) == LET ks == Keys(db) IN [i \in 1..Len(ks) |-> db[ks[i]]]

\* len([t for t in tasks if t.status == TaskStatus.COMPLETED])
CountCompleted(tasks) == Cardinality({i \in 1..Len(tasks) : tasks[i].status = "completed"})

\* Greatest common divisor of two naturals, not both 0.
RECURSIVE GCD(_, _)
GCD(a, b) == IF b = 0 THEN a ELSE GCD(b, a % b)

\* The number n / d (d > 0) as a fraction in lowest terms: equal numbers
\* are equal fractions.
Ratio(n, d) == [num |-> n \div GCD(n, d), den |-> d \div GCD(n, d)]

\* "completed / total if total > 0 else 0"
Rate(completed, total) == IF total > 0 THEN Ratio(completed, total) ELSE Ratio(0, 1)

\* get_task: the stored task, or 404.
get_task_result(db, task_id) ==
    IF task_id \notin DOMAIN db
    THEN HTTPException(HTTP_404, "Task not found")
    ELSE Response(HTTP_200, db[task_id])

\* GET /api/tasks/{task_id}
get_task(task_id) ==
    /\ Handle([op |-> "get_task", task_id |-> task_id])
    /\ response' = get_task_result(tasks_db, task_id)
    /\ UNCHANGED <<tasks_db, projects_db, action_history, redo_stack, next_id>>

\* get_tasks: the filters are applied one after the other; each "if" tests
\* the truth value of its parameter, so None and the empty string skip the
\* filter; a date filter drops the tasks without a date.
get_tasks_result(db, date_from, date_to, project_id, status, include_inbox) ==
    LET tasks0 == Values(db)
        tasks1 == IF date_from # NoInt
                  THEN SelectSeq(tasks0, LAMBDA t : t.date # NoInt /\ t.date >= date_from)
                  ELSE tasks0
        tasks2 == IF date_to # NoInt
                  THEN SelectSeq(tasks1, LAMBDA t : t.date # NoInt /\ t.date <= date_to)
                  ELSE tasks1
        tasks3 == IF project_id \notin {None, ""}
                  THEN SelectSeq(tasks2, LAMBDA t : t.project_id = project_id)
                  ELSE tasks2
        tasks4 == IF status # None
                  THEN SelectSeq(tasks3, LAMBDA t : t.status = status)
                  ELSE tasks3
        tasks5 == IF ~include_inbox
                  THEN SelectSeq(tasks4, LAMBDA t : t.date # NoInt)
                  ELSE tasks4
    IN  Response(HTTP_200, tasks5)

\* GET /api/tasks
get_tasks(date_from, date_to, project_id, status, include_inbox) ==
    /\ Handle([op |-> "get_tasks", date_from |-> date_from, date_to |-> date_to,
               project_id |-> project_id, status |-> status, include_inbox |-> include_inbox])
    /\ response' = get_tasks_result(tasks_db, date_from, date_to, project_id, status, include_inbox)
    /\ UNCHANGED <<tasks_db, projects_db, action_history, redo_stack, next_id>>

\* get_schedule: the tasks of the day, appended to the bucket their
\* time_block names; task.time_block.value raises AttributeError for a task
\* whose time_block is None.
get_schedule_result(db, target_date) ==
    LET day_tasks == SelectSeq(Values(db), LAMBDA t : t.date = target_date)
        bucket(b) == SelectSeq(day_tasks, LAMBDA t : t.time_block = b)
        total == Len(day_tasks)
        completed == CountCompleted(day_tasks)
    IN  IF \E i \in 1..Len(day_tasks) : day_tasks[i].time_block = None
        THEN InternalServerError("AttributeError")
        ELSE Response(HTTP_200,
                 [date |-> target_date,
                  morning |-> bucket("morning"), afternoon |-> bucket("afternoon"),
                  evening |-> bucket("evening"), anytime |-> bucket("anytime"),
                  stats |-> [total |-> total, completed |-> completed,
                             progress |-> Rate(completed, total)]])

\* GET /api/schedule/{target_date}
get_schedule(target_date) ==
    /\ Handle([op |-> "get_schedule", target_date |-> target_date])
    /\ response' = get_schedule_result(tasks_db, target_date)
    /\ UNCHANGED <<tasks_db, projects_db, action_history, redo_stack, next_id>>

\* subtask.model_dump(): a Subtask object becomes a plain dict (written
\* [dict |-> fields]); a plain dict stays what it is.
subtask_dump(subtask) == IF "dict" \in DOMAIN subtask THEN subtask ELSE [dict |-> subtask]

\* t.model_dump(): the task's fields, nested Subtask objects dumped too.
model_dump(task) ==
    [task EXCEPT !.subtasks = [i \in 1..Len(task.subtasks) |-> subtask_dump(task.subtasks[i])]]

\* One entry of the range schedule.
day_entry(db, current) ==
    LET ts == SelectSeq(Values(db), LAMBDA t : t.date = current)
        day_tasks == [i \in 1..Len(ts) |-> model_dump(ts[i])]
    IN  [tasks |-> day_tasks, total |-> Len(day_tasks), completed |-> CountCompleted(day_tasks)]

\* The while loop of get_schedule_range from `current` on, `schedules` being
\* the entries collected so far.  "current += timedelta(days=1)" raises
\* OverflowError when current is date.max.
RECURSIVE schedule_range_loop(_, _, _, _)
schedule_range_loop(db, current, end_date, schedules) ==
    IF current <= end_date
    THEN LET schedules1 == (current :> day_entry(db, current)) @@ schedules
         IN  IF current = date_max
             THEN InternalServerError("OverflowError")
             ELSE schedule_range_loop(db, current + 1, end_date, schedules1)
    ELSE Response(HTTP_200, schedules)

\* get_schedule_range: a mapping from each date of the range to its entry.
get_schedule_range_result(db, start_date, end_date) ==
    schedule_range_loop(db, start_date, end_date, <<>>)

\* GET /api/schedule/range
get_schedule_range(start_date, end_date) ==
    /\ Handle([op |-> "get_schedule_range", start_date |-> start_date, end_date |-> end_date])
    /\ response' = get_schedule_range_result(tasks_db, start_date, end_date)
    /\ UNCHANGED <<tasks_db, projects_db, action_history, redo_stack, next_id>>

\* str(uuid4()) of the k-th project created.
FreshProjectIds == <<"p1", "p2", "p3">>

\* Projects created so far (no handler removes a project).
created_projects == Cardinality(projects_db \ DEFAULT_PROJECTS)

\* POST /api/projects: the project is stored under a fresh id.
create_project(project_data) ==
    /\ created_projects < MaxProjects
    /\ LET id == FreshProjectIds[created_projects + 1]
       IN  /\ Handle([op |-> "create_project", project_data |-> project_data, project_id |-> id])
           /\ projects_db' = projects_db \cup {id}
           /\ response' = Response(HTTP_201, [id |-> id, name |-> project_data.name])
    /\ UNCHANGED <<tasks_db, action_history, redo_stack, next_id>>

\* Statistics whose pending_tasks counts the tasks with status "pending".
get_project_stats_result_status_pending(db, projects, project_id) ==
    IF project_id \notin projects
    THEN HTTPException(HTTP_404, "Project not found")
    ELSE LET project_tasks == SelectSeq(Values(db), LAMBDA t : t.project_id = project_id)
             completed == CountCompleted(project_tasks)
         IN  Response(HTTP_200,
                 [project_id |-> project_id,
                  total_tasks |-> Len(project_tasks),
                  completed_tasks |-> completed,
                  pending_tasks |-> Len(SelectSeq(project_tasks, LAMBDA t : t.status = "pending")),
                  completion_rate |-> Rate(completed, Len(project_tasks))])

\* get_project_stats: 404 for a project that is not stored; else the counts
\* over the tasks whose project_id is the project's.
get_project_stats_result(db, projects, project_id) ==
    IF project_id \notin projects
    THEN HTTPException(HTTP_404, "Project not found")
    ELSE LET project_tasks == SelectSeq(Values(db), LAMBDA t : t.project_id = project_id)
             completed == CountCompleted(project_tasks)
         IN  Response(HTTP_200,
                 [project_id |-> project_id,
                  total_tasks |-> Len(project_tasks),
                  completed_tasks |-> completed,
                  pending_tasks |-> Len(project_tasks) - completed,
                  completion_rate |-> IF Len(project_tasks) # 0
                                      THEN Ratio(completed, Len(project_tasks))
                                      ELSE Ratio(0, 1)])

\* GET /api/projects/{project_id}/stats
get_project_stats(project_id) ==
    /\ Handle([op |-> "get_project_stats", project_id |-> project_id])
    /\ response' = get_project_stats_result(tasks_db, projects_db, project_id)
    /\ UNCHANGED <<tasks_db, projects_db, action_history, redo_stack, next_id>>

\* ------------------------------------------------------------------------
\* AI breakdown
\* ------------------------------------------------------------------------

\* "request.estimated_minutes or 30": None and 0 give 30.
minutes_or_30(request_body) ==
    IF request_body.estimated_minutes \in {NoInt, 0} THEN 30 ELSE request_body.estimated_minutes

\* max(a, b)
max(a, b) == IF a >= b THEN a ELSE b

\* One suggested step.
Step(title, estimated_minutes, energy_level, tips) ==
    [title |-> title, estimated_minutes |-> estimated_minutes, energy_level |-> energy_level, tips |-> tips]

\* The response built when no API key is configured (its emoji left out).
mock_response(request_body) ==
    [subtasks |->
        << Step("Step 1: Get started with " \o request_body.task_title, 10, "medium",
                "Just open the relevant app or document"),
           Step("Step 2: Work on the main part", max(15, minutes_or_30(request_body) - 20), "high",
                "Focus on progress, not perfection"),
           Step("Step 3: Review and wrap up", 10, "low", "Quick check and you're done!") >>,
     total_estimated_minutes |-> minutes_or_30(request_body),
     suggested_approach |-> "Break it into small chunks. Start with just 5 minutes - you've got this!",
     motivation_tip |-> "Remember: done is better than perfect. Every small step counts!"]

\* The response built after the try block ended without returning (its
\* emoji left out).
fallback_response(request_body) ==
    [subtasks |->
        << Step("Start: Open/prepare for " \o request_body.task_title, 5, "low",
                "Just get the materials ready"),
           Step("Do: Main work block", max(10, minutes_or_30(request_body) - 10), "medium",
                "Set a timer and focus"),
           Step("Finish: Quick review", 5, "low", "Good enough is good!") >>,
     total_estimated_minutes |-> minutes_or_30(request_body),
     suggested_approach |-> "Start small, build momentum. You only need to do 5 minutes to start!",
     motivation_tip |-> "The hardest part is starting. Once you begin, momentum takes over!"]

\* A breakdown the external service may send, of the expected shape.
service_breakdown ==
    [subtasks |-> << Step("Open the document", 5, "low", "Two minutes is enough to begin") >>,
     total_estimated_minutes |-> 45,
     suggested_approach |-> "One chunk at a time",
     motivation_tip |-> "You can do it"]

\* What the external call and the reading of its answer can come to.
ServiceOutcomes ==
    {"connect_error", "timeout", "status_not_200", "body_not_json", "no_json_object",
     "json_invalid", "wrong_shape", "breakdown"}

\* The try block: it returns a response, raises, or ends without either
\* (no JSON object in the text).
try_block(outcome) ==
    CASE outcome = "connect_error" -> [raised |-> "ConnectError"]
      [] outcome = "timeout" -> [raised |-> "TimeoutException"]
      [] outcome = "status_not_200" -> [raised |-> "HTTPException"]
      [] outcome = "body_not_json" -> [raised |-> "KeyError"]
      [] outcome = "no_json_object" -> [passed |-> TRUE]
      [] outcome = "json_invalid" -> [raised |-> "JSONDecodeError"]
      [] outcome = "wrong_shape" -> [raised |-> "ValidationError"]
      [] outcome = "breakdown" -> [returned |-> service_breakdown]

\* An except clause that lets HTTPException pass.
except_all_but_http(exception) == exception # "HTTPException"

\* "except Exception as e": every exception the try block raises is one.
except_Exception(exception) == TRUE

\* ai_breakdown_task, given whether ANTHROPIC_API_KEY is set and what the
\* external call comes to.
ai_breakdown_task_result(request_body, api_key, outcome) ==
    IF ~api_key
    THEN Response(HTTP_200, mock_response(request_body))
    ELSE LET t == try_block(outcome)
         IN  IF "returned" \in DOMAIN t
             THEN Response(HTTP_200, t.returned)
             ELSE IF "raised" \in DOMAIN t /\ ~except_Exception(t.raised)
                  THEN IF t.raised = "HTTPException"
                       THEN HTTPException(HTTP_500, "AI service error")
                       ELSE InternalServerError(t.raised)
                  ELSE Response(HTTP_200, fallback_response(request_body))

\* POST /api/ai/breakdown
ai_breakdown_task(request_body, api_key, outcome) ==
    /\ Handle([op |-> "ai_breakdown_task", body |-> request_body, api_key |-> api_key,
               outcome |-> outcome])
    /\ response' = ai_breakdown_task_result(request_body, api_key, outcome)
    /\ UNCHANGED <<tasks_db, projects_db, action_history, redo_stack, next_id>>

\* ------------------------------------------------------------------------
\* Subtasks
\* ------------------------------------------------------------------------

\* A subtask as update_task stores it: the plain dict model_dump made of the
\* request's Subtask, never turned back into a Subtask object.
DumpedSubtask(fields) == [dict |-> fields]

\* The subtask is a Subtask object (it has attributes).
IsSubtaskObject(subtask) == "dict" \notin DOMAIN subtask

\* Where the loop of toggle_subtask stops: the first subtask that is a plain
\* dict (subtask.id raises AttributeError) or whose id is subtask_id; 0 if
\* the loop runs to its end.
toggle_stop(subtasks, subtask_id) ==
    LET stops == {i \in 1..Len(subtasks) :
                    ~IsSubtaskObject(subtasks[i]) \/ subtasks[i].id = subtask_id}
    IN  IF stops = {} THEN 0 ELSE CHOOSE i \in stops : \A j \in stops : i <= j

\* toggle_subtask: 404 for an absent task; the loop flips the first subtask
\* with the id and the task's updated_at is refreshed; 404 when the loop
\* ends without a match.
toggle_subtask_result(db, task_id, subtask_id, now) ==
    IF task_id \notin DOMAIN db
    THEN [db |-> db, resp |-> HTTPException(HTTP_404, "Task not found")]
    ELSE LET i == toggle_stop(db[task_id].subtasks, subtask_id)
         IN  IF i = 0
             THEN [db |-> db, resp |-> HTTPException(HTTP_404, "Subtask not found")]
             ELSE IF ~IsSubtaskObject(db[task_id].subtasks[i])
                  THEN [db |-> db, resp |-> InternalServerError("AttributeError")]
                  ELSE LET db1 == [db EXCEPT ![task_id].subtasks[i].completed = ~@,
                                              ![task_id].updated_at = now]
                       IN  [db |-> db1, resp |-> Response(HTTP_200, db1[task_id])]

\* POST /api/tasks/{task_id}/subtasks/{subtask_id}/toggle
toggle_subtask(task_id, subtask_id) ==
    /\ Handle([op |-> "toggle_subtask", task_id |-> task_id, subtask_id |-> subtask_id])
    /\ LET r == toggle_subtask_result(tasks_db, task_id, subtask_id, clock + 1)
       IN  /\ tasks_db' = r.db
           /\ response' = r.resp
    /\ UNCHANGED <<projects_db, action_history, redo_stack, next_id>>

\* ------------------------------------------------------------------------
\* Requests
\* ------------------------------------------------------------------------

\* Task ids the requests name: a demo task (absent from the empty store) and
\* the first two created tasks (absent until created, and after deletion).
ReqIds == {"t1", "u1", "u2"}

\* Ids a client can know when it sends a request: uuid4 ids already handed
\* out, and any other string.
KnownIds == {id \in ReqIds : \A k \in (next_id + 1)..Len(FreshIds) : FreshIds[k] # id}

\* depends_on lists of a TaskCreate: empty, one id, two ids (possibly the
\* same id twice).
DepLists(ids) == {<<>>} \cup {<<a>> : a \in ids} \cup {<<a, b>> : a \in ids, b \in ids}

\* A TaskCreate with the defaults of TaskBase for what is not given.
TaskCreate(title, project_id, date, depends_on) ==
    [title |-> title, description |-> None, project_id |-> project_id, date |-> date,
     time_block |-> "anytime", estimated_minutes |-> 30, priority |-> "medium",
     energy_level |-> "medium", icon |-> "target", subtasks |-> <<>>, depends_on |-> depends_on]

\* ------------------------------------------------------------------------
\* The dependency-graph requests: create, link, unlink, delete
\* ------------------------------------------------------------------------

NextGraph ==
    \/ \E deps \in DepLists(KnownIds) : create_task(TaskCreate("A", "work", NoInt, deps))
    \/ \E p \in ReqIds, d \in ReqIds : link_tasks(p, d)
    \/ \E p \in ReqIds, d \in ReqIds : unlink_tasks(p, d)
    \/ \E id \in ReqIds : delete_task(id)

SpecGraph == Init /\ [][NextGraph]_vars

\* ------------------------------------------------------------------------
\* The scheduling requests: statuses, dates and carry-over
\* ------------------------------------------------------------------------

\* from_date / to_date of the carry-over requests.
CarryDates == {today, tomorrow}

NextCarry ==
    \/ \E d \in {NoInt, today}, deps \in {<<>>, <<"t1">>} : create_task(TaskCreate("A", "work", d, deps))
    \/ \E id \in ReqIds : complete_task(id)
    \/ \E id \in ReqIds : start_task(id)
    \/ \E id \in ReqIds : update_task(id, [status |-> "skipped"])
    \/ \E id \in ReqIds : move_task(id, tomorrow, None)
    \/ \E d1 \in CarryDates, d2 \in CarryDates : carry_over_tasks(d1, d2)

SpecCarry == Init /\ [][NextCarry]_vars

\* ------------------------------------------------------------------------
\* The undo / redo requests
\* ------------------------------------------------------------------------

\* update_data of the title updates.
TitleUpdates == {[title |-> "X"], [title |-> "Y"]}

NextUndo ==
    \/ create_task(TaskCreate("A", "work", NoInt, <<>>))
    \/ \E id \in ReqIds, u \in TitleUpdates : update_task(id, u)
    \/ \E id \in ReqIds : delete_task(id)
    \/ undo_action
    \/ redo_action

SpecUndo == Init /\ [][NextUndo]_vars

\* Action records a stack may hold: two restorable title updates and a
\* record of a type undo / redo do not restore.
LogRecords ==
    { ActionRecord("update_task", "t1", [title |-> "Old"], [title |-> "New"]),
      ActionRecord("update_task", "u1", [title |-> "A"], [title |-> "B"]),
      ActionRecord("delete_task", "t1", [status |-> "pending"], [status |-> "completed"]) }

\* The lists over S of length at most n.
SeqsUpTo(S, n) == UNION {[1..m -> S] : m \in 0..n}

\* The two stacks are module globals that no handler of main.py fills.  Here
\* they are inputs of undo_action / redo_action: any two lists of action
\* records holding at most MaxLog records together.
InitLog ==
    /\ tasks_db \in {EmptyStore, SeededStore}
    /\ projects_db = DEFAULT_PROJECTS
    /\ action_history \in SeqsUpTo(LogRecords, MaxLog)
    /\ redo_stack \in SeqsUpTo(LogRecords, MaxLog - Len(action_history))
    /\ next_id = 0
    /\ clock = 0
    /\ request = NoRequest
    /\ response = NoResponse
    /\ pre = Snapshot
    /\ again = FALSE
    /\ event_loop = IdleLoop

NextLog ==
    \/ create_task(TaskCreate("A", "work", NoInt, <<>>))
    \/ \E id \in {"t1", "u1"} : update_task(id, [title |-> "X"])
    \/ \E id \in {"t1"} : delete_task(id)
    \/ undo_action
    \/ redo_action

SpecLog == InitLog /\ [][NextLog]_vars

\* ------------------------------------------------------------------------
\* The update requests: partial updates next to the other writers of a task
\* ------------------------------------------------------------------------

\* update_data of the update requests: a title alone, or a depends_on list
\* (empty, one id, the same id twice).
FieldUpdates ==
    {[title |-> "X"]} \cup
    {[depends_on |-> l] : l \in {<<>>, <<"t1">>, <<"u1">>, <<"t1", "t1">>}}

\* Task ids of the update requests: a demo task (absent from the empty
\* store) and the first created task (absent until created).
UpdateIds == {"t1", "u1"}

NextUpdate ==
    \/ \E deps \in {<<>>, <<"t1">>} : create_task(TaskCreate("A", "work", NoInt, deps))
    \/ \E id \in UpdateIds, u \in FieldUpdates : update_task(id, u)
    \/ \E p \in UpdateIds, d \in UpdateIds : link_tasks(p, d)
    \/ \E p \in UpdateIds, d \in UpdateIds : unlink_tasks(p, d)
    \/ \E id \in UpdateIds : complete_task(id)
    \/ \E id \in UpdateIds : start_task(id)
    \/ \E id \in UpdateIds : move_task(id, tomorrow, "morning")

SpecUpdate == Init /\ [][NextUpdate]_vars

\* ------------------------------------------------------------------------
\* The schedule views next to the writers of date, time_block and status
\* ------------------------------------------------------------------------

\* Tasks the schedule requests write to.
ScheduleIds == {"t2", "u1"}

NextSchedule ==
    \/ \E d \in {today, tomorrow} : create_task(TaskCreate("A", "work", d, <<>>))
    \/ \E id \in ScheduleIds : complete_task(id)
    \/ \E id \in ScheduleIds, b \in {"evening", None} : update_task(id, [time_block |-> b])
    \/ \E id \in ScheduleIds : move_task(id, tomorrow, "morning")
    \/ \E d \in {today, tomorrow, date_max} : get_schedule(d)
    \/ \E d1 \in {today, tomorrow, day_after}, d2 \in {today, tomorrow, date_max} :
          get_schedule_range(d1, d2)

SpecSchedule == Init /\ [][NextSchedule]_vars

\* ------------------------------------------------------------------------
\* Project statistics next to the writers of project_id and status
\* ------------------------------------------------------------------------

\* Projects the requests name: a default project, the first created project
\* (absent until created) and one that is never stored.
ReqProjects == {"work", "p1", "ghost"}

NextStats ==
    \/ \E p \in ReqProjects : create_task(TaskCreate("A", p, NoInt, <<>>))
    \/ \E id \in ReqIds : complete_task(id)
    \/ \E id \in ReqIds, p \in {"work", "p1"} : update_task(id, [project_id |-> p])
    \/ \E id \in ReqIds : delete_task(id)
    \/ create_project([name |-> "P"])
    \/ \E p \in ReqProjects : get_project_stats(p)

SpecStats == Init /\ [][NextStats]_vars

\* ------------------------------------------------------------------------
\* The task list next to the writers of date, project_id and status
\* ------------------------------------------------------------------------

NextTasks ==
    \/ \E p \in {"work", ""}, d \in {NoInt, today} : create_task(TaskCreate("A", p, d, <<>>))
    \/ complete_task("u1")
    \/ move_task("u1", tomorrow, None)
    \/ \E date_from \in {NoInt, tomorrow}, date_to \in {NoInt, today},
          project_id \in {None, "", "work"}, status \in {None, "completed"},
          include_inbox \in BOOLEAN :
          get_tasks(date_from, date_to, project_id, status, include_inbox)

SpecTasks == Init /\ [][NextTasks]_vars

\* ------------------------------------------------------------------------
\* The AI breakdown on any store and stacks, next to the writer of projects
\* ------------------------------------------------------------------------

\* Request bodies of the breakdown: the estimate absent, 0 and an hour.
BreakdownRequests ==
    {[task_title |-> "Write report", task_description |-> None, estimated_minutes |-> m,
      context |-> None] : m \in {NoInt, 0, 60}}

NextAI ==
    \/ create_project([name |-> "P"])
    \/ \E b \in BreakdownRequests : ai_breakdown_task(b, FALSE, "not_called")
    \/ \E b \in BreakdownRequests, o \in ServiceOutcomes : ai_breakdown_task(b, TRUE, o)

SpecAI == InitLog /\ [][NextAI]_vars

\* ------------------------------------------------------------------------
\* Handlers as coroutines on the event loop
\* ------------------------------------------------------------------------
\* Every handler is an "async def": the event loop runs one handler at a
\* time, from its call to its next await or to its return.  Here a handler
\* is the list of its statements that write the store, in program order,
\* with its awaits in between, and each statement is a step of its own.

\* "if x not in task.field: task.field.append(x)"
AppendStep(id, field, x) == [kind |-> "append", id |-> id, field |-> field, x |-> x]

\* "if x in task.field: task.field.remove(x)"
RemoveStep(id, field, x) == [kind |-> "remove", id |-> id, field |-> field, x |-> x]

\* "task.field = value"
SetStep(id, field, value) == [kind |-> "set", id |-> id, field |-> field, value |-> value]

\* "del tasks_db[id]"
DelStep(id) == [kind |-> "del", id |-> id]

\* "update_dependents(id)": a plain function call, no await inside.
UpdateDependentsStep(id) == [kind |-> "update_dependents", id |-> id]

\* "await ..."
AwaitStep == [kind |-> "await"]

\* The store after a statement ran (a task that left the store meanwhile is
\* written to as an object the store no longer holds).
Run(db, s) ==
    IF s.kind = "await" \/ s.id \notin DOMAIN db THEN db
    ELSE CASE s.kind = "append" -> [db EXCEPT ![s.id][s.field] = AppendIfAbsent(@, s.x)]
           [] s.kind = "remove" -> [db EXCEPT ![s.id][s.field] = RemoveIfPresent(@, s.x)]
           [] s.kind = "set" -> [db EXCEPT ![s.id][s.field] = s.value]
           [] s.kind = "del" -> Del(db, s.id)
           [] s.kind = "update_dependents" -> update_dependents(db, s.id)

\* The lists of a list of lists, one after the other.
RECURSIVE Concat(_)
Concat(lists) == IF lists = <<>> THEN <<>> ELSE Head(lists) \o Concat(Tail(lists))

\* A link_tasks that awaits between its two writes.
link_tasks_steps_await_between(db, parent_task_id, dependent_task_id) ==
    IF parent_task_id \notin DOMAIN db \/ dependent_task_id \notin DOMAIN db
    THEN <<>>
    ELSE << AppendStep(dependent_task_id, "depends_on", parent_task_id),
            AwaitStep,
            AppendStep(parent_task_id, "dependents", dependent_task_id) >>

\* link_tasks: nothing after the 404; else the two guarded appends.
link_tasks_steps(db, parent_task_id, dependent_task_id) ==
    IF parent_task_id \notin DOMAIN db \/ dependent_task_id \notin DOMAIN db
    THEN <<>>
    ELSE << AppendStep(dependent_task_id, "depends_on", parent_task_id),
            AppendStep(parent_task_id, "dependents", dependent_task_id) >>

\* unlink_tasks: nothing after the 404; else the two guarded removes.
unlink_tasks_steps(db, parent_task_id, dependent_task_id) ==
    IF parent_task_id \notin DOMAIN db \/ dependent_task_id \notin DOMAIN db
    THEN <<>>
    ELSE << RemoveStep(dependent_task_id, "depends_on", parent_task_id),
            RemoveStep(parent_task_id, "dependents", dependent_task_id) >>

\* delete_task: nothing after the 404; else the two guarded removes for
\* every stored task, then the del.
delete_task_steps(db, task_id) ==
    IF task_id \notin DOMAIN db
    THEN <<>>
    ELSE Concat([i \in 1..Len(Keys(db)) |->
                    << RemoveStep(Keys(db)[i], "depends_on", task_id),
                       RemoveStep(Keys(db)[i], "dependents", task_id) >>])
         \o << DelStep(task_id) >>

\* The fields of a TaskUpdate in the order model_dump lists them.
TaskUpdateFields ==
    << "title", "description", "project_id", "date", "time_block", "estimated_minutes",
       "actual_minutes", "priority", "energy_level", "icon", "status", "subtasks",
       "depends_on", "notes" >>

\* update_task: nothing after the 404; else one setattr per field of the
\* request, then updated_at, then update_dependents.
update_task_steps(db, task_id, update_data, now) ==
    IF task_id \notin DOMAIN db
    THEN <<>>
    ELSE LET fields == SelectSeq(TaskUpdateFields, LAMBDA f : f \in DOMAIN update_data)
         IN  [i \in 1..Len(fields) |-> SetStep(task_id, fields[i], update_data[fields[i]])]
             \o << SetStep(task_id, "updated_at", now), UpdateDependentsStep(task_id) >>

\* carry_over_tasks: the three assignments for every task the loop carries.
carry_over_tasks_steps(db, from_date, to_date) ==
    Concat([i \in 1..Len(Keys(db)) |->
               LET k == Keys(db)[i]
               IN  IF carries(db[k], from_date)
                   THEN << SetStep(k, "carried_over_from", db[k].date),
                           SetStep(k, "date", to_date),
                           SetStep(k, "status", "carried-over") >>
                   ELSE <<>>])

\* ai_breakdown_task with an API key: it writes nothing and awaits the
\* external call.
ai_breakdown_task_steps == << AwaitStep >>

\* The statements of the handler a request calls (get_task writes nothing).
Steps(db, req, now) ==
    CASE req.op = "link_tasks" -> link_tasks_steps(db, req.parent_task_id, req.dependent_task_id)
      [] req.op = "unlink_tasks" -> unlink_tasks_steps(db, req.parent_task_id, req.dependent_task_id)
      [] req.op = "delete_task" -> delete_task_steps(db, req.task_id)
      [] req.op = "update_task" -> update_task_steps(db, req.task_id, req.update_data, now)
      [] req.op = "carry_over_tasks" -> carry_over_tasks_steps(db, req.from_date, req.to_date)
      [] req.op = "ai_breakdown_task" -> ai_breakdown_task_steps
      [] req.op = "get_task" -> <<>>

\* The store the handler leaves when it is called on db and nothing runs in
\* between.
Outcome(db, req, now) ==
    CASE req.op = "link_tasks" -> link_tasks_result(db, req.parent_task_id, req.dependent_task_id).db
      [] req.op = "unlink_tasks" -> unlink_tasks_result(db, req.parent_task_id, req.dependent_task_id).db
      [] req.op = "delete_task" -> delete_task_result(db, req.task_id).db
      [] req.op = "update_task" -> update_task_result(db, req.task_id, req.update_data, now).db
      [] req.op = "carry_over_tasks" -> carry_over_tasks_result(db, req.from_date, req.to_date).db
      [] OTHER -> db

\* The stored tasks a handler's local variables refer to.
Locals(db, req) ==
    CASE req.op \in {"link_tasks", "unlink_tasks"} ->
             {req.parent_task_id, req.dependent_task_id} \cap DOMAIN db
      [] req.op \in {"update_task", "get_task"} -> {req.task_id} \cap DOMAIN db
      [] OTHER -> {}

\* A handler call in flight.
Coroutine(db, req, now) ==
    [request |-> req, todo |-> Steps(db, req, now), wrote |-> FALSE, waiting |-> FALSE,
     holds |-> Locals(db, req), outcome |-> Outcome(db, req, now)]

\* The event loop is idle and calls the handler of a request.
call_handler(req) ==
    /\ event_loop.running = 0
    /\ clock < MaxOps
    /\ clock' = clock + 1
    /\ event_loop' = [coroutines |-> Append(event_loop.coroutines, Coroutine(tasks_db, req, clock + 1)),
                      running |-> Len(event_loop.coroutines) + 1]
    /\ UNCHANGED <<tasks_db, projects_db, action_history, redo_stack, next_id, request, response,
                   pre, again>>

\* The running handler executes its next statement; an await hands the loop
\* back.
run_statement ==
    /\ event_loop.running # 0
    /\ LET i == event_loop.running
           c == event_loop.coroutines[i]
       IN  /\ c.todo # <<>>
           /\ LET s == Head(c.todo)
                  db1 == Run(tasks_db, s)
              IN  /\ tasks_db' = db1
                  /\ event_loop' =
                        [coroutines |-> [event_loop.coroutines EXCEPT ![i] =
                                            [c EXCEPT !.todo = Tail(c.todo),
                                                      !.wrote = c.wrote \/ db1 # tasks_db,
                                                      !.waiting = (s.kind = "await")]],
                         running |-> IF s.kind = "await" THEN 0 ELSE i]
    /\ UNCHANGED <<projects_db, action_history, redo_stack, next_id, clock, request, response,
                   pre, again>>

\* The running handler returns.
return_response ==
    /\ event_loop.running # 0
    /\ LET i == event_loop.running
           cs == event_loop.coroutines
       IN  /\ cs[i].todo = <<>>
           /\ event_loop' = [coroutines |-> SubSeq(cs, 1, i - 1) \o SubSeq(cs, i + 1, Len(cs)),
                             running |-> 0]
    /\ UNCHANGED <<tasks_db, projects_db, action_history, redo_stack, next_id, clock, request,
                   response, pre, again>>

\* The awaited call is over and the idle loop resumes the handler.
resume(i) ==
    /\ event_loop.running = 0
    /\ i \in 1..Len(event_loop.coroutines)
    /\ event_loop.coroutines[i].waiting
    /\ event_loop' = [coroutines |-> [event_loop.coroutines EXCEPT ![i].waiting = FALSE],
                      running |-> i]
    /\ UNCHANGED <<tasks_db, projects_db, action_history, redo_stack, next_id, clock, request,
                   response, pre, again>>

\* Requests of the concurrent clients.
LoopRequests ==
    { [op |-> "link_tasks", parent_task_id |-> "t1", dependent_task_id |-> "t3"],
      [op |-> "unlink_tasks", parent_task_id |-> "t1", dependent_task_id |-> "t2"],
      [op |-> "delete_task", task_id |-> "t2"],
      [op |-> "update_task", task_id |-> "t1", update_data |-> [title |-> "X", notes |-> "n"]],
      [op |-> "carry_over_tasks", from_date |-> today, to_date |-> tomorrow],
      [op |-> "get_task", task_id |-> "t1"],
      [op |-> "ai_breakdown_task"] }

NextLoop ==
    \/ \E req \in LoopRequests : call_handler(req)
    \/ run_statement
    \/ return_response
    \/ \E i \in 1..MaxOps : resume(i)

SpecLoop == Init /\ [][NextLoop]_vars

\* ------------------------------------------------------------------------
\* Requests that name a task or a subtask, stored or not
\* ------------------------------------------------------------------------

\* Task ids of these requests: a demo task with subtasks (absent from the
\* empty store) and the first created task (absent until created).
LookupIds == {"t2", "u1"}

NextLookup ==
    \/ create_task(TaskCreate("A", "work", NoInt, <<>>))
    \/ \E id \in LookupIds : get_task(id)
    \/ \E id \in LookupIds : update_task(id, [title |-> "X"])
    \/ \E id \in LookupIds : update_task(id, [subtasks |-> << DumpedSubtask([title |-> "Outline"]) >>])
    \/ \E id \in LookupIds : delete_task(id)
    \/ \E id \in LookupIds : complete_task(id)
    \/ \E id \in LookupIds : start_task(id)
    \/ \E id \in LookupIds : move_task(id, tomorrow, None)
    \/ \E id \in LookupIds, sid \in {"s1", "s9"} : toggle_subtask(id, sid)

SpecLookup == Init /\ [][NextLookup]_vars

\* ------------------------------------------------------------------------
\* The whole API
\* ------------------------------------------------------------------------

Next == NextGraph \/ NextCarry \/ NextUndo \/ NextUpdate \/ NextSchedule \/ NextStats \/ NextTasks \/ NextAI \/ NextLoop \/ NextLookup

Spec == Init /\ [][Next]_vars

\* ------------------------------------------------------------------------
\* Properties of the dependency edges
\* ------------------------------------------------------------------------

\* The stored tasks before the request handled last.
pre_db == pre.tasks_db

\* id occurs in no stored task's depends_on or dependents.
Unreferenced(db, id) ==
    \A k \in DOMAIN db : ~InList(id, db[k].depends_on) /\ ~InList(id, db[k].dependents)

\* C1: depends_on and dependents are inverse views of one edge set: for all
\* stored tasks A and B, B is in A.dependents iff A is in B.depends_on,
\* after any sequence of create, link, unlink and delete requests.
C1_InverseEdges ==
    \A a \in DOMAIN tasks_db, b \in DOMAIN tasks_db :
        InList(b, tasks_db[a].dependents) <=> InList(a, tasks_db[b].depends_on)

\* C2: after a successful create_task, every parent listed in the request's
\* depends_on that is in the store has the new task's id in its dependents.
C2_CreateAddsReverseEdge ==
    (request.op = "create_task" /\ response.status = HTTP_201) =>
        \A p \in ToSet(request.task_data.depends_on) \cap DOMAIN tasks_db :
            InList(request.task_id, tasks_db[p].dependents)

\* C3: after a successful delete_task(X), X is not stored and no stored
\* task's depends_on or dependents holds X.
C3_DeleteStripsEveryReference ==
    (request.op = "delete_task" /\ response.status = HTTP_204) =>
        /\ request.task_id \notin DOMAIN tasks_db
        /\ Unreferenced(tasks_db, request.task_id)

\* C4: link_tasks(P, D) is idempotent: a successful link_tasks(P, D) that
\* directly follows the same request leaves every task as the first call
\* left it (no entry is added twice).
C4_LinkIdempotent ==
    (request.op = "link_tasks" /\ again) =>
        /\ response.status = pre.status
        /\ tasks_db = pre_db

\* C4 witness: link_tasks(P, D) on two distinct stored tasks was handled
\* twice in a row, and both directions of the edge are there.
C4_Witness ==
    /\ request.op = "link_tasks"
    /\ again
    /\ response.status = HTTP_200
    /\ request.parent_task_id # request.dependent_task_id
    /\ InList(request.parent_task_id, tasks_db[request.dependent_task_id].depends_on)
    /\ InList(request.dependent_task_id, tasks_db[request.parent_task_id].dependents)

\* The pair (P, D) of an unlink_tasks request on two tasks stored before it.
UnlinkOnStored ==
    /\ request.op = "unlink_tasks"
    /\ request.parent_task_id \in DOMAIN pre_db
    /\ request.dependent_task_id \in DOMAIN pre_db

\* C5: unlink_tasks(P, D) on two stored tasks always succeeds; with no edge
\* between them it changes nothing; with one direction present, afterwards
\* that direction is gone (P not in D.depends_on, D not in P.dependents) and
\* nothing else has changed.
C5_UnlinkMissingEdge ==
    UnlinkOnStored =>
        LET p == request.parent_task_id
            d == request.dependent_task_id
            fwd == InList(p, pre_db[d].depends_on)
            bwd == InList(d, pre_db[p].dependents)
        IN  /\ response.status = HTTP_200
            /\ (~fwd /\ ~bwd) => tasks_db = pre_db
            /\ (fwd # bwd) =>
                  /\ ~InList(p, tasks_db[d].depends_on)
                  /\ ~InList(d, tasks_db[p].dependents)
                  /\ \A k \in DOMAIN pre_db : \A f \in DOMAIN pre_db[k] :
                        (tasks_db[k][f] # pre_db[k][f]) =>
                            \/ (k = d /\ f = "depends_on" /\ fwd)
                            \/ (k = p /\ f = "dependents" /\ bwd)

\* C6: link_tasks answers 404 exactly when the parent id or the dependent id
\* is not stored, and then no task has been changed.
C6_LinkNotFoundWritesNothing ==
    (request.op = "link_tasks") =>
        /\ (response.status = HTTP_404) <=>
              (request.parent_task_id \notin DOMAIN pre_db \/ request.dependent_task_id \notin DOMAIN pre_db)
        /\ (response.status = HTTP_404) => tasks_db = pre_db

\* C6 witness: a link_tasks request with exactly one endpoint stored (which
\* has edges of its own) was answered 404.
C6_Witness ==
    /\ request.op = "link_tasks"
    /\ response.status = HTTP_404
    /\ \E e \in {request.parent_task_id, request.dependent_task_id} :
          /\ e \in DOMAIN tasks_db
          /\ (tasks_db[e].depends_on # <<>> \/ tasks_db[e].dependents # <<>>)
    /\ \E e \in {request.parent_task_id, request.dependent_task_id} : e \notin DOMAIN tasks_db

\* ------------------------------------------------------------------------
\* Properties of carry-over
\* ------------------------------------------------------------------------

\* The tasks a carry_over_tasks(d1, ...) request is to move: stored before
\* the request, dated d1, neither completed nor skipped.
ToCarry(d1) ==
    {k \in DOMAIN pre_db : pre_db[k].date = d1 /\ pre_db[k].status \notin {"completed", "skipped"}}

\* C7: carry_over_tasks(d1, d2) moves exactly the tasks dated d1 whose status
\* is neither completed nor skipped: each ends with date d2, status
\* carried-over and carried_over_from d1; task_ids lists exactly these tasks,
\* once each, and carried_over is their number.
C7_CarryOverMovesExactly ==
    (request.op = "carry_over_tasks") =>
        LET M == ToCarry(request.from_date)
        IN  /\ response.status = HTTP_200
            /\ ToSet(response.body.task_ids) = M
            /\ Len(response.body.task_ids) = Cardinality(M)
            /\ response.body.carried_over = Cardinality(M)
            /\ \A k \in M :
                  /\ tasks_db[k].date = request.to_date
                  /\ tasks_db[k].status = "carried-over"
                  /\ tasks_db[k].carried_over_from = request.from_date
            /\ \A k \in DOMAIN pre_db \ M :
                  ~(tasks_db[k].date = request.to_date /\ pre_db[k].date # request.to_date)

\* C7 witness: a carry-over from d1 to another day carried a pending, an
\* in-progress and a carried-over task and left a completed task of d1.
C7_Witness ==
    /\ request.op = "carry_over_tasks"
    /\ request.from_date # request.to_date
    /\ \A st \in {"pending", "in-progress", "carried-over"} :
          \E k \in ToCarry(request.from_date) : pre_db[k].status = st
    /\ \E k \in DOMAIN tasks_db :
          /\ pre_db[k].date = request.from_date
          /\ pre_db[k].status = "completed"
          /\ tasks_db[k].date = request.from_date

\* C8: carry_over_tasks(d1, d2) leaves every completed, skipped, undated or
\* otherwise dated task as it was, changes no task's depends_on or
\* dependents, and adds or removes no task.
C8_CarryOverFrame ==
    (request.op = "carry_over_tasks") =>
        /\ DOMAIN tasks_db = DOMAIN pre_db
        /\ \A k \in DOMAIN pre_db \ ToCarry(request.from_date) : tasks_db[k] = pre_db[k]
        /\ \A k \in DOMAIN pre_db :
              /\ tasks_db[k].depends_on = pre_db[k].depends_on
              /\ tasks_db[k].dependents = pre_db[k].dependents

\* C8 witness: a carry-over that moved a task with dependency edges while
\* the store held a completed and a skipped task of d1, an undated task and
\* a task of another day.
C8_Witness ==
    /\ request.op = "carry_over_tasks"
    /\ \E k \in ToCarry(request.from_date) : pre_db[k].depends_on # <<>> /\ pre_db[k].dependents # <<>>
    /\ \E k \in DOMAIN pre_db : pre_db[k].date = request.from_date /\ pre_db[k].status = "completed"
    /\ \E k \in DOMAIN pre_db : pre_db[k].date = request.from_date /\ pre_db[k].status = "skipped"
    /\ \E k \in DOMAIN pre_db : pre_db[k].date = NoInt
    /\ \E k \in DOMAIN pre_db : pre_db[k].date \notin {NoInt, request.from_date}

\* ------------------------------------------------------------------------
\* Properties of undo / redo
\* ------------------------------------------------------------------------

\* C9: after a successful update_task(T, {title: X}) on a task titled Y, an
\* undo_action succeeds and restores T.title to Y, and a redo_action that
\* follows the undo succeeds and sets T.title back to X (the title before
\* the undo).
C9_UndoRedoTitle ==
    [][ /\ ( /\ request.op = "update_task"
             /\ response.status = HTTP_200
             /\ DOMAIN request.update_data = {"title"}
             /\ request'.op = "undo_action" )
           => ( /\ response'.status = HTTP_200
                /\ request.task_id \in DOMAIN tasks_db'
                /\ tasks_db'[request.task_id].title = pre_db[request.task_id].title )
        /\ ( /\ request.op = "undo_action"
             /\ response.status = HTTP_200
             /\ response.body.task_id \in DOMAIN pre_db
             /\ request'.op = "redo_action" )
           => ( /\ response'.status = HTTP_200
                /\ tasks_db'[response.body.task_id].title = pre_db[response.body.task_id].title )
      ]_vars

\* C10: undo_action answers 400 "Nothing to undo" exactly when
\* action_history is empty and redo_action answers 400 exactly when
\* redo_stack is empty (200 otherwise); a failed undo or redo leaves the task
\* store and both stacks as they were.
C10_UndoRedoEmptyStack ==
    /\ (request.op = "undo_action") =>
          /\ response.status = (IF pre.action_history = <<>> THEN HTTP_400 ELSE HTTP_200)
          /\ (response.status = HTTP_400) =>
                /\ response.body.detail = "Nothing to undo"
                /\ Snapshot = [pre EXCEPT !.status = HTTP_400]
    /\ (request.op = "redo_action") =>
          /\ response.status = (IF pre.redo_stack = <<>> THEN HTTP_400 ELSE HTTP_200)
          /\ (response.status = HTTP_400) =>
                /\ response.body.detail = "Nothing to redo"
                /\ Snapshot = [pre EXCEPT !.status = HTTP_400]

\* C10 witness: an undo failed on an empty history while the redo stack and
\* the task store were not empty.
C10_Witness ==
    /\ request.op = "undo_action"
    /\ response.status = HTTP_400
    /\ pre.action_history = <<>>
    /\ redo_stack # <<>>
    /\ DOMAIN tasks_db # {}

\* ------------------------------------------------------------------------
\* Properties of update_task
\* ------------------------------------------------------------------------

\* The last request was an update_task that succeeded.
Updated == request.op = "update_task" /\ response.status = HTTP_200

\* C11: after a successful update_task(B, {depends_on: L}), for every stored
\* task A, B is in A.dependents iff A is in L: parents the update added have
\* gained B, parents it dropped have lost B.
C11_UpdateRewritesReverseEdges ==
    (Updated /\ "depends_on" \in DOMAIN request.update_data) =>
        \A a \in DOMAIN tasks_db :
            InList(request.task_id, tasks_db[a].dependents)
                <=> InList(a, request.update_data.depends_on)

\* The task an update_task request named, after and before the request.
updated_task == tasks_db[request.task_id]
task_before == pre_db[request.task_id]

own_dependents(task, dependents) ==
    IF InList(task.id, task.depends_on) THEN AppendIfAbsent(dependents, task.id) ELSE dependents

Buckets == {"morning", "afternoon", "evening", "anytime"}

\* Ids of the stored tasks dated d, and of the completed ones among them.
Dated(d) == {id \in DOMAIN tasks_db : tasks_db[id].date = d}
CompletedOn(d) == {id \in Dated(d) : tasks_db[id].status = "completed"}

\* How often a task with this id occurs in a list of tasks.
Occurrences(id, tasks) == Cardinality({i \in 1..Len(tasks) : tasks[i].id = id})

\* C13: get_schedule(d) answers with four buckets that partition the stored
\* tasks dated d by time_block: every such task is in the bucket its
\* time_block names, once, and in no other; nothing else is in a bucket;
\* stats.total is the number of tasks dated d (the sum of the bucket sizes),
\* stats.completed the number of completed ones, and stats.progress is 0
\* when total is 0.
C13_SchedulePartition ==
    (request.op = "get_schedule") =>
        /\ response.status = HTTP_200
        /\ LET body == response.body
               d == request.target_date
           IN  /\ \A id \in Dated(d), b \in Buckets :
                      Occurrences(id, body[b]) = (IF tasks_db[id].time_block = b THEN 1 ELSE 0)
               /\ \A id \in Dated(d) : tasks_db[id].time_block \in Buckets
               /\ \A b \in Buckets : \A i \in 1..Len(body[b]) :
                      /\ body[b][i].id \in Dated(d)
                      /\ body[b][i] = tasks_db[body[b][i].id]
               /\ body.stats.total = Cardinality(Dated(d))
               /\ body.stats.total = Len(body.morning) + Len(body.afternoon)
                                        + Len(body.evening) + Len(body.anytime)
               /\ body.stats.completed = Cardinality(CompletedOn(d))
               /\ (body.stats.total = 0) => (body.stats.progress = Ratio(0, 1))

\* C14: get_schedule_range(start, end) terminates with a mapping that has
\* one entry for every date d with start <= d <= end (days without tasks
\* included) and no entry for any other date; the entry of d holds the
\* tasks dated d, total is their number and completed the number of
\* completed ones; with start > end the mapping is empty.
C14_ScheduleRange ==
    (request.op = "get_schedule_range") =>
        /\ response.status = HTTP_200
        /\ LET body == response.body
           IN  /\ DOMAIN body = {d \in today..date_max : request.start_date <= d /\ d <= request.end_date}
               /\ \A d \in DOMAIN body :
                      /\ {body[d].tasks[i].id : i \in 1..Len(body[d].tasks)} = Dated(d)
                      /\ body[d].total = Cardinality(Dated(d))
                      /\ body[d].completed = Cardinality(CompletedOn(d))
               /\ (request.start_date > request.end_date) => (body = <<>>)

\* Ids of the stored tasks of project p, and of the completed ones among them.
InProject(p) == {id \in DOMAIN tasks_db : tasks_db[id].project_id = p}
CompletedIn(p) == {id \in InProject(p) : tasks_db[id].status = "completed"}

\* C15: get_project_stats(p) fails with NotFound when p is not a stored
\* project; otherwise total_tasks is the number of stored tasks whose
\* project_id is p, completed_tasks the number of completed ones,
\* pending_tasks their difference, and completion_rate is 0 (no error) for a
\* project without tasks.
C15_ProjectStats ==
    (request.op = "get_project_stats") =>
        LET p == request.project_id
            body == response.body
        IN  IF p \notin projects_db
            THEN response.status = HTTP_404 /\ body.detail = "Project not found"
            ELSE /\ response.status = HTTP_200
                 /\ body.total_tasks = Cardinality(InProject(p))
                 /\ body.completed_tasks = Cardinality(CompletedIn(p))
                 /\ body.pending_tasks = body.total_tasks - body.completed_tasks
                 /\ body.completion_rate = Rate(body.completed_tasks, body.total_tasks)
                 /\ (body.total_tasks = 0) => (body.completion_rate = Ratio(0, 1))

\* C15 witness: statistics of a created project that has a completed task
\* and a task that is not completed.
C15_Witness ==
    /\ request.op = "get_project_stats"
    /\ request.project_id = "p1"
    /\ response.status = HTTP_200
    /\ response.body.completed_tasks = 1
    /\ response.body.pending_tasks = 1

\* Task t satisfies every filter the get_tasks request r supplies (None
\* stands for a filter that is not supplied).
Satisfies(t, r) ==
    /\ (r.date_from # NoInt) => (t.date # NoInt /\ t.date >= r.date_from)
    /\ (r.date_to # NoInt) => (t.date # NoInt /\ t.date <= r.date_to)
    /\ (r.project_id # None) => (t.project_id = r.project_id)
    /\ (r.status # None) => (t.status = r.status)
    /\ (~r.include_inbox) => (t.date # NoInt)

\* The request before last left the store and both stacks as they were.
StoreUnchanged ==
    /\ tasks_db = pre.tasks_db
    /\ action_history = pre.action_history
    /\ redo_stack = pre.redo_stack

\* C16: get_tasks(filters) returns exactly the stored tasks that satisfy
\* every supplied filter at once (date >= date_from, date <= date_to,
\* project_id equal, status equal, a date present when include_inbox is
\* false), each once; without filters it returns every stored task, inbox
\* tasks included; it never modifies the store.
C16_GetTasksFilters ==
    (request.op = "get_tasks") =>
        /\ response.status = HTTP_200
        /\ \A id \in DOMAIN tasks_db :
              Occurrences(id, response.body) = (IF Satisfies(tasks_db[id], request) THEN 1 ELSE 0)
        /\ \A i \in 1..Len(response.body) :
              /\ response.body[i].id \in DOMAIN tasks_db
              /\ response.body[i] = tasks_db[response.body[i].id]
        /\ StoreUnchanged

\* ------------------------------------------------------------------------
\* Properties of the AI breakdown
\* ------------------------------------------------------------------------

\* A breakdown a caller can use: the four parts of an AIBreakdownResponse,
\* at least one step, every step with a title and a positive estimate.
Usable(breakdown) ==
    /\ DOMAIN breakdown = {"subtasks", "total_estimated_minutes", "suggested_approach", "motivation_tip"}
    /\ Len(breakdown.subtasks) >= 1
    /\ \A i \in 1..Len(breakdown.subtasks) :
          breakdown.subtasks[i].title # "" /\ breakdown.subtasks[i].estimated_minutes > 0
    /\ breakdown.total_estimated_minutes \in Int

\* The external service did not deliver a breakdown: no key configured, or
\* the call raised, timed out, answered another status than 200, or sent
\* content that cannot be read as a breakdown.
Degraded(r) == ~r.api_key \/ r.outcome # "breakdown"

\* C17: ai_breakdown_task always answers 200 with a usable breakdown; when
\* the key is not configured, or the external call raises, times out,
\* answers a status other than 200 or sends content that cannot be parsed
\* into the expected shape, the breakdown is a fallback fixed by the request
\* alone; the task store, the projects and both stacks are left as they
\* were.
C17_BreakdownNeverFails ==
    (request.op = "ai_breakdown_task") =>
        /\ response.status = HTTP_200
        /\ Usable(response.body)
        /\ Degraded(request) =>
              /\ response.body \in {mock_response(request.body), fallback_response(request.body)}
              /\ response.body.total_estimated_minutes = minutes_or_30(request.body)
        /\ StoreUnchanged
        /\ projects_db = pre.projects_db

\* C17 witness: the external service answered with a status other than 200
\* while tasks, a created project and a history record were stored, and the
\* caller got the fallback.
C17_Witness ==
    /\ request.op = "ai_breakdown_task"
    /\ request.api_key
    /\ request.outcome = "status_not_200"
    /\ response.body = fallback_response(request.body)
    /\ DOMAIN tasks_db # {}
    /\ projects_db # DEFAULT_PROJECTS
    /\ action_history # <<>>

\* ------------------------------------------------------------------------
\* Properties of concurrent requests
\* ------------------------------------------------------------------------

\* The handler call has written part of what it writes.
MidMutation(c) == c.wrote /\ c.todo # <<>>

\* C18: under every interleaving the event loop allows, a handler call that
\* is in flight while another one runs (or while the loop is free to start
\* one) has not written anything and is not part-way through its writes: it
\* is an ai_breakdown_task suspended at its await, holding no reference into
\* the store; and every other handler, once its statements have run, leaves
\* the store its uninterrupted run on the store it was called on leaves
\* (no link or unlink with one end written, no delete short of the del, no
\* update or carry-over with some of its fields written is ever observed).
C18_HandlersRunToCompletion ==
    \A i \in 1..Len(event_loop.coroutines) :
        LET c == event_loop.coroutines[i]
        IN  /\ (event_loop.running # i) =>
                  /\ ~MidMutation(c)
                  /\ c.waiting
                  /\ c.request.op = "ai_breakdown_task"
                  /\ ~c.wrote
                  /\ c.holds = {}
            /\ (event_loop.running = i /\ c.todo = <<>> /\ c.request.op # "ai_breakdown_task") =>
                  tasks_db = c.outcome

\* C18 witness: a delete_task is part-way through its writes while an
\* ai_breakdown_task is suspended.
C18_Witness ==
    \E i \in 1..Len(event_loop.coroutines), j \in 1..Len(event_loop.coroutines) :
        /\ event_loop.coroutines[i].waiting
        /\ event_loop.running = j
        /\ event_loop.coroutines[j].request.op = "delete_task"
        /\ MidMutation(event_loop.coroutines[j])

\* ------------------------------------------------------------------------
\* Properties of failed lookups
\* ------------------------------------------------------------------------

\* The handlers that look one task up by its id.
TaskLookups ==
    {"get_task", "update_task", "delete_task", "complete_task", "start_task", "move_task",
     "toggle_subtask"}

\* The ids of the subtasks of a task (a plain dict may lack an id).
SubtaskIds(task) ==
    {task.subtasks[i].id : i \in {j \in 1..Len(task.subtasks) : IsSubtaskObject(task.subtasks[j])}}
    \cup {task.subtasks[i].dict.id :
             i \in {j \in 1..Len(task.subtasks) :
                      ~IsSubtaskObject(task.subtasks[j]) /\ "id" \in DOMAIN task.subtasks[j].dict}}

\* C19: get_task, update_task, delete_task, complete_task, start_task,
\* move_task and toggle_subtask, called with a task id that is not stored,
\* and toggle_subtask, called on a stored task with a subtask id the task
\* does not have, answer 404 and leave every task (updated_at included) and
\* both stacks as they were.
C19_NotFoundWritesNothing ==
    /\ (request.op \in TaskLookups /\ request.task_id \notin DOMAIN pre_db) =>
          (response.status = HTTP_404 /\ StoreUnchanged)
    /\ ( /\ request.op = "toggle_subtask"
         /\ request.task_id \in DOMAIN pre_db
         /\ request.subtask_id \notin SubtaskIds(pre_db[request.task_id]) ) =>
          (response.status = HTTP_404 /\ StoreUnchanged)

\* ------------------------------------------------------------------------
\* Properties of the requests that are no edge operations
\* ------------------------------------------------------------------------

\* The last request was a complete_task, start_task or move_task, or an
\* update_task whose request has no depends_on.
NoEdgeRequest ==
    \/ request.op \in {"complete_task", "start_task", "move_task"}
    \/ request.op = "update_task" /\ "depends_on" \notin DOMAIN request.update_data

\* C20: an update_task whose request does not contain depends_on, a
\* complete_task, a start_task and a move_task leave the depends_on and the
\* dependents of every stored task as they were.
C20_OnlyEdgeOperationsChangeEdges ==
    NoEdgeRequest =>
        /\ DOMAIN tasks_db = DOMAIN pre_db
        /\ \A id \in DOMAIN tasks_db :
              /\ tasks_db[id].depends_on = pre_db[id].depends_on
              /\ tasks_db[id].dependents = pre_db[id].dependents

\* ------------------------------------------------------------------------
\* Properties of the two stacks
\* ------------------------------------------------------------------------

\* The last record of a non-empty stack, and the stack without it.
Top(stack) == stack[Len(stack)]
Popped(stack) == SubSeq(stack, 1, Len(stack) - 1)

\* The last request was an undo_action / a redo_action that succeeded.
Undone == request.op = "undo_action" /\ response.status = HTTP_200
Redone == request.op = "redo_action" /\ response.status = HTTP_200

\* C21: a successful undo_action removes the most recent record of
\* action_history and pushes that record on top of redo_stack, a successful
\* redo_action does the reverse (last in, first out); no undo or redo
\* changes the number of records the two stacks hold together; and a redo
\* that immediately follows a successful undo succeeds and leaves both
\* stacks as they were before the undo.
C21_UndoRedoMoveTopRecord ==
    [][ /\ Undone' =>
              /\ pre'.action_history # <<>>
              /\ action_history' = Popped(pre'.action_history)
              /\ redo_stack' = Append(pre'.redo_stack, Top(pre'.action_history))
        /\ Redone' =>
              /\ pre'.redo_stack # <<>>
              /\ redo_stack' = Popped(pre'.redo_stack)
              /\ action_history' = Append(pre'.action_history, Top(pre'.redo_stack))
        /\ (request'.op \in {"undo_action", "redo_action"}) =>
              Len(action_history') + Len(redo_stack') = Len(action_history) + Len(redo_stack)
        /\ (Undone /\ request'.op = "redo_action") =>
              /\ response'.status = HTTP_200
              /\ action_history' = pre.action_history
              /\ redo_stack' = pre.redo_stack
      ]_vars

\* C21 witness: an undo succeeded on a history of two different records, so
\* that the record it moved is told apart from the one it left.
C21_Witness ==
    /\ Undone
    /\ Len(pre.action_history) = 2
    /\ pre.action_history[1] # pre.action_history[2]
    /\ redo_stack = <<pre.action_history[2]>>

\* The record an undo_action / a redo_action on the stacks of `pre` takes
\* names a task the store does not hold.
UndoOfAbsentTask ==
    /\ request.op = "undo_action"
    /\ pre.action_history # <<>>
    /\ Top(pre.action_history).task_id \notin DOMAIN pre_db
RedoOfAbsentTask ==
    /\ request.op = "redo_action"
    /\ pre.redo_stack # <<>>
    /\ Top(pre.redo_stack).task_id \notin DOMAIN pre_db

\* C22: when the task named by the record being undone or redone is not in
\* the store (it was deleted), undo_action / redo_action still answers 200
\* with the record's type and task id and still moves the record from one
\* stack to the other, and the store is left exactly as it was: the task is
\* not recreated and no other task is modified.
C22_RestoreSkippedForDeletedTask ==
    /\ UndoOfAbsentTask =>
          /\ response = Response(HTTP_200, [undone |-> Top(pre.action_history).type,
                                            task_id |-> Top(pre.action_history).task_id])
          /\ action_history = Popped(pre.action_history)
          /\ redo_stack = Append(pre.redo_stack, Top(pre.action_history))
          /\ tasks_db = pre_db
    /\ RedoOfAbsentTask =>
          /\ response = Response(HTTP_200, [redone |-> Top(pre.redo_stack).type,
                                            task_id |-> Top(pre.redo_stack).task_id])
          /\ redo_stack = Popped(pre.redo_stack)
          /\ action_history = Append(pre.action_history, Top(pre.redo_stack))
          /\ tasks_db = pre_db
    /\ (UndoOfAbsentTask \/ RedoOfAbsentTask) => projects_db = pre.projects_db

\* C22 witness: the seeded store lost t1 to a delete_task, and an undo of an
\* "update_task" record on t1 succeeded with the other tasks still stored.
C22_Witness ==
    /\ UndoOfAbsentTask
    /\ Top(pre.action_history).type = "update_task"
    /\ Top(pre.action_history).task_id = "t1"
    /\ "t2" \in DOMAIN tasks_db
    /\ "t1" \notin DOMAIN tasks_db
    /\ response.status = HTTP_200

\* C23: a successful update_task pushes one record onto action_history, of
\* type "update_task", naming the task and holding the previous and the new
\* values of the fields the request sets, and leaves redo_stack as it was
\* (so that after update, undo and a second update a redo still finds the
\* undone action).
C23_UpdatePushesRecord ==
    Updated =>
        /\ action_history =
              Append(pre.action_history,
                     ActionRecord("update_task", request.task_id,
                                  [f \in DOMAIN request.update_data |-> task_before[f]],
                                  request.update_data))
        /\ redo_stack = pre.redo_stack

\* ------------------------------------------------------------------------
\* Properties of the dependency graph as a whole
\* ------------------------------------------------------------------------

\* The stored tasks reached from the tasks of `frontier` along depends_on
\* (each task to its parents), the tasks of `seen` included.
RECURSIVE Ancestors(_, _, _)
Ancestors(db, frontier, seen) ==
    LET parents == UNION {ToSet(db[k].depends_on) : k \in frontier} \cap DOMAIN db
        new == parents \ seen
    IN  IF new = {} THEN seen ELSE Ancestors(db, new, seen \cup new)

\* Task a depends on task b, directly or through other stored tasks.
DependsOn(db, a, b) == a \in DOMAIN db /\ b \in Ancestors(db, {a}, {})

\* The last request was a link_tasks on two stored tasks that closes a
\* cycle: parent and dependent are the same task, or the parent already
\* depended on the dependent.
LinkClosesCycle ==
    /\ request.op = "link_tasks"
    /\ request.parent_task_id \in DOMAIN pre_db
    /\ request.dependent_task_id \in DOMAIN pre_db
    /\ \/ request.parent_task_id = request.dependent_task_id
       \/ DependsOn(pre_db, request.parent_task_id, request.dependent_task_id)

\* C24: a link_tasks on two stored tasks that closes a dependency cycle
\* (link(B, A) after link(A, B), or link(A, A)) is not rejected: it answers
\* 200 "linked", and afterwards the dependent lists the parent in depends_on,
\* the parent lists the dependent in dependents, and the dependent depends
\* on itself through the cycle.
C24_CyclesNotRejected ==
    LinkClosesCycle =>
        /\ response = Response(HTTP_200, [status |-> "linked", parent |-> request.parent_task_id,
                                          dependent |-> request.dependent_task_id])
        /\ InList(request.parent_task_id, tasks_db[request.dependent_task_id].depends_on)
        /\ InList(request.dependent_task_id, tasks_db[request.parent_task_id].dependents)
        /\ DependsOn(tasks_db, request.dependent_task_id, request.dependent_task_id)

\* C24 witness: t1 and u1 depend on each other after two link_tasks, and a
\* link_tasks(t1, t1) then made t1 its own parent and dependent.
C24_Witness ==
    /\ LinkClosesCycle
    /\ request.parent_task_id = "t1"
    /\ request.dependent_task_id = "t1"
    /\ response.status = HTTP_200
    /\ InList("t1", tasks_db["t1"].depends_on) /\ InList("t1", tasks_db["t1"].dependents)
    /\ InList("u1", tasks_db["t1"].depends_on) /\ InList("u1", tasks_db["t1"].dependents)
    /\ InList("t1", tasks_db["u1"].depends_on) /\ InList("t1", tasks_db["u1"].dependents)

\* The list holds no element twice.
NoRepeats(list) == \A x \in ToSet(list) : CountOf(x, list) = 1

\* C25: in every reachable state no stored task's depends_on or dependents
\* holds the same id twice, whatever the create, update, link, unlink and
\* delete requests were (a depends_on of a request that repeats an id
\* included).
C25_NoDuplicateEdges ==
    \A k \in DOMAIN tasks_db :
        NoRepeats(tasks_db[k].depends_on) /\ NoRepeats(tasks_db[k].dependents)

\* C26: in every reachable state every id in a stored task's depends_on or
\* dependents is the id of a stored task, whatever the create, update, link,
\* unlink and delete requests were (a depends_on of a request that names an
\* id that is not stored included).
C26_NoDanglingEdges ==
    \A k \in DOMAIN tasks_db :
        ToSet(tasks_db[k].depends_on) \cup ToSet(tasks_db[k].dependents) \subseteq DOMAIN tasks_db

====
